---- MODULE Spec2Model ----
(***************************************************************************)
(* Model of the conservatory-greenhouse service: the FastAPI handlers of   *)
(* main.py over the SQLAlchemy tables of models.py (SQLite, database.py),  *)
(* the pydantic payload classes of schema.py, the photo files on disk and  *)
(* the read-aggregation facade of graphql/schema.py.                       *)
(*                                                                         *)
(* One action per HTTP handler.  Every handler runs in its own session and *)
(* commits before it returns, so a handler is one atomic step.             *)
(***************************************************************************)
EXTENDS Integers, Sequences, FiniteSets, TLC

VARIABLES
    plants,        \* table "plants": a set of rows
    waterings,     \* table "waterings"
    photos,        \* table "photos"
    notes,         \* table "notes"
    files,         \* the disk: the files that exist, each a path and its bytes
    today,         \* the calendar day (what date.today() returns now)
    default_date,  \* schema.PlantBase's acquisition_date default, a class attribute
    last           \* the last request and what the caller saw of it

vars == <<plants, waterings, photos, notes, files, today, default_date, last>>
db == <<plants, waterings, photos, notes>>

----------------------------------------------------------------------------
(* Bounds of the model. *)

\* Days are 1..MaxDate.
MaxDate == 2
\* The highest id the plants table hands out.
MaxPlantId == 2
\* The most rows the three child tables hold together.
MaxRows == 3
\* The highest id a child table hands out where rows are deleted too.
MaxRowId == 2
\* The query strings of a nested listing: start in 0..MaxStart, limit in 0..MaxLimit.
MaxStart == 1
MaxLimit == 2

Dates == 1..MaxDate
PlantIds == 1..(MaxPlantId + 1)
RowIds == 1..(MaxRowId + 1)

----------------------------------------------------------------------------
(* Values. *)

\* Python's None, and a present optional value.
None == <<>>
Some(x) == <<x>>

\* models.HealthStatus
HealthStatus == {"healthy", "sick", "dead"}

\* Plant names are strings, modelled as sequences of characters.
NameSpaced == <<"a", " ", "b">>
NamePlain == <<"c">>

\* The uploaded bytes of a photo.
Contents == {"A", "B"}

\* str.replace(" ", "_")
Replace(s) == [i \in DOMAIN s |-> IF s[i] = " " THEN "_" ELSE s[i]]

\* f"{photo_data.date.isoformat()}-{plant.name.replace(' ', '_')}": the ISO date
\* has a fixed width, so the string is the pair of its two parts.
FileName(date, name) == <<date, Replace(name)>>

\* A path "dir/file_name".
PathOf(dir, file_name) == [dir |-> dir, name |-> file_name]

\* f"photos/{file_name}": where add_photo writes the upload.
FileLocation(file_name) == PathOf("photos", file_name)
\* f"static/{file_name}": what add_photo stores in Photo.path.
StoredPath(file_name) == PathOf("static", file_name)
\* deleted_dir / source.name
ArchivePath(path) == PathOf("deleted_photos", path.name)

----------------------------------------------------------------------------
(* The relational layer. *)

SetMax(S) == CHOOSE m \in S : \A x \in S : x <= m

\* SQLite gives an INTEGER PRIMARY KEY without AUTOINCREMENT the rowid
\* max(rowid) + 1: the id of a deleted last row is handed out again.
NextId(table) == IF table = {} THEN 1 ELSE SetMax({r.id : r \in table}) + 1

Exists(table, id) == \E r \in table : r.id = id
\* Session.get(Model, id); used only where Exists holds.
Get(table, id) == CHOOSE r \in table : r.id = id

ChildRows == Cardinality(waterings) + Cardinality(photos) + Cardinality(notes)

\* The model's caps on what a create may leave: plant ids up to MaxPlantId; at
\* most MaxRows child rows, with ids up to max_id.
PlantsFit == \A p \in plants : p.id <= MaxPlantId
RowsFit(max_id) ==
    /\ ChildRows <= MaxRows
    /\ \A w \in waterings : w.id <= max_id
    /\ \A ph \in photos : ph.id <= max_id
    /\ \A n \in notes : n.id <= max_id

\* What the flush of a request deleted (the ids, by table) and which plants had
\* parent_id set to NULL.
NoFlush == [waterings |-> {}, photos |-> {}, notes |-> {}, nulled |-> {}]

\* The record of a request: the handler, its arguments, the HTTP status, the
\* response body, the paths the handler printed a failed move for, and what
\* its flush did.
Resp(op, arg, status, body) ==
    [op |-> op, arg |-> arg, status |-> status, body |-> body,
     log |-> {}, flush |-> NoFlush]

----------------------------------------------------------------------------
(* schema.py: the payload classes. *)

PlantBaseFields ==
    {"name", "nickname", "scientific", "watering_frequency_days",
     "acquisition_date", "health_status"}

\* The defaults of PlantBase.  acquisition_date's default is the value
\* date.today() had when the class body ran, at import.
PlantBaseDefaults ==
    [nickname |-> None, scientific |-> None, watering_frequency_days |-> None,
     acquisition_date |-> default_date, health_status |-> "healthy"]

\* PlantCreate.model_dump(): every field, the unset ones at their defaults.
PlantCreateDump(plant_in) ==
    [k \in PlantBaseFields |->
        IF k \in DOMAIN plant_in THEN plant_in[k] ELSE PlantBaseDefaults[k]]

\* PlantResponse: PlantBase's fields and id.
PlantResponseFields == PlantBaseFields \cup {"id"}

\* A response_model keeps the fields the class declares, and no others.
Serialize(obj, fields) == [k \in fields |-> obj[k]]

\* setattr(row, key, value) for every item of a dump.
SetAttrs(row, dump) ==
    [k \in DOMAIN row |-> IF k \in DOMAIN dump THEN dump[k] ELSE row[k]]

----------------------------------------------------------------------------
(* main.py: plants. *)

\* POST /plants/
create_plant(plant_in) ==
    /\ LET plant == PlantCreateDump(plant_in) @@
                    [id |-> NextId(plants), parent_id |-> None]
       IN /\ plants' = plants \cup {plant}
          /\ last' = Resp("create_plant", plant_in, 200,
                          Serialize(plant, PlantResponseFields))
    /\ UNCHANGED <<waterings, photos, notes, files, today, default_date>>

\* PATCH /plants/{id}
update_plant_by_id(id, plant_in) ==
    IF ~Exists(plants, id)
    THEN /\ last' = Resp("update_plant_by_id", <<id, plant_in>>, 404, None)
         /\ UNCHANGED <<db, files, today, default_date>>
    ELSE LET plant == SetAttrs(Get(plants, id), plant_in)
         IN /\ plants' = (plants \ {Get(plants, id)}) \cup {plant}
            /\ last' = Resp("update_plant_by_id", <<id, plant_in>>, 200,
                            Serialize(plant, PlantResponseFields))
            /\ UNCHANGED <<waterings, photos, notes, files, today, default_date>>

----------------------------------------------------------------------------
(* The disk. *)

\* os.path.exists(path)
OnDisk(path) == \E f \in files : f.path = path

\* open(path, "wb").write(bytes): creates the file or replaces its bytes.
WriteFile(fs, path, bytes) ==
    {f \in fs : f.path # path} \cup {[path |-> path, bytes |-> bytes]}

\* shutil.move(source, destination) of each path of moved, within fs.
MoveToArchive(fs, moved) ==
    {f \in fs : f.path \notin moved /\ f.path \notin {ArchivePath(m) : m \in moved}}
    \cup {[path |-> ArchivePath(f.path), bytes |-> f.bytes] :
             f \in {g \in fs : g.path \in moved}}

----------------------------------------------------------------------------
(* models.py: the before_delete hook of Photo. *)

\* archive_deleted_photo, run once for every row of ps as the session flushes
\* their DELETEs.  A row whose path is on disk has its file moved to
\* deleted_photos/; a move that raises is caught and printed, and the file
\* stays.  When two rows of ps carry one path the second row finds the file
\* gone if the first move worked, and tries again if it did not.  The result is
\* every disk and log the hook can leave.
archive_deleted_photo(ps) ==
    LET found == {p.path : p \in {q \in ps : OnDisk(q.path)}}
        shared == {x \in found : Cardinality({p \in ps : p.path = x}) > 1}
    IN {[files |-> MoveToArchive(files, moved),
         log |-> (found \ moved) \cup again] :
            moved \in SUBSET found, again \in SUBSET shared}

----------------------------------------------------------------------------
(* main.py: plants, continued. *)

\* The flush of db.delete(plant): the "all, delete-orphan" cascades delete the
\* plant's waterings, photos and notes; the children relationship has no delete
\* cascade, so the rows of the plant's children stay and have parent_id set to
\* NULL.
PlantsAfterDelete(id) ==
    {IF p.parent_id = Some(id) THEN [p EXCEPT !.parent_id = None] ELSE p :
        p \in {q \in plants : q.id # id}}

OwnedBy(table, id) == {r \in table : r.plant_id = id}
\* Plant.children
ChildrenOf(id) == {p \in plants : p.parent_id = Some(id)}
Ids(rows) == {r.id : r \in rows}

\* delete_plant_by_id with the notes relationship left without its delete
\* cascade: the plant's notes stay behind.
delete_plant_by_id_keeps_notes(id) ==
    IF ~Exists(plants, id)
    THEN /\ last' = Resp("delete_plant_by_id", id, 404, None)
         /\ UNCHANGED <<db, files, today, default_date>>
    ELSE /\ plants' = PlantsAfterDelete(id)
         /\ waterings' = waterings \ OwnedBy(waterings, id)
         /\ photos' = photos \ OwnedBy(photos, id)
         /\ \E out \in archive_deleted_photo(OwnedBy(photos, id)) :
               /\ files' = out.files
               /\ last' = [Resp("delete_plant_by_id", id, 200, None) EXCEPT
                             !.log = out.log,
                             !.flush = [waterings |-> Ids(OwnedBy(waterings, id)),
                                        photos |-> Ids(OwnedBy(photos, id)),
                                        notes |-> {},
                                        nulled |-> Ids(ChildrenOf(id))]]
         /\ UNCHANGED <<notes, today, default_date>>

\* DELETE /plants/{id}
delete_plant_by_id(id) ==
    IF ~Exists(plants, id)
    THEN /\ last' = Resp("delete_plant_by_id", id, 404, None)
         /\ UNCHANGED <<db, files, today, default_date>>
    ELSE /\ plants' = PlantsAfterDelete(id)
         /\ waterings' = waterings \ OwnedBy(waterings, id)
         /\ photos' = photos \ OwnedBy(photos, id)
         /\ notes' = notes \ OwnedBy(notes, id)
         /\ \E out \in archive_deleted_photo(OwnedBy(photos, id)) :
               /\ files' = out.files
               /\ last' = [Resp("delete_plant_by_id", id, 200, None) EXCEPT
                             !.log = out.log,
                             !.flush = [waterings |-> Ids(OwnedBy(waterings, id)),
                                        photos |-> Ids(OwnedBy(photos, id)),
                                        notes |-> Ids(OwnedBy(notes, id)),
                                        nulled |-> Ids(ChildrenOf(id))]]
         /\ UNCHANGED <<today, default_date>>

----------------------------------------------------------------------------
(* main.py: waterings. *)

\* POST /waterings/
create_watering(watering_in) ==
    IF ~Exists(plants, watering_in.plant_id)
    THEN /\ last' = Resp("create_watering", watering_in, 404, None)
         /\ UNCHANGED <<db, files, today, default_date>>
    ELSE /\ LET watering == watering_in @@ [id |-> NextId(waterings)]
            IN /\ waterings' = waterings \cup {watering}
               /\ last' = Resp("create_watering", watering_in, 200, watering)
         /\ UNCHANGED <<plants, photos, notes, files, today, default_date>>

\* DELETE /waterings/{id}
delete_watering(id) ==
    IF ~Exists(waterings, id)
    THEN /\ last' = Resp("delete_watering", id, 404, None)
         /\ UNCHANGED <<db, files, today, default_date>>
    ELSE /\ waterings' = waterings \ {Get(waterings, id)}
         /\ last' = [Resp("delete_watering", id, 200, None) EXCEPT
                       !.flush.waterings = {id}]
         /\ UNCHANGED <<plants, photos, notes, files, today, default_date>>

----------------------------------------------------------------------------
(* main.py: photos. *)

\* POST /photos
add_photo(photo_data, photo) ==
    IF ~Exists(plants, photo_data.plant_id)
    THEN /\ last' = Resp("add_photo", <<photo_data, photo>>, 404, None)
         /\ UNCHANGED <<db, files, today, default_date>>
    ELSE /\ LET plant == Get(plants, photo_data.plant_id)
                file_name == FileName(photo_data.date, plant.name)
                photo_entry == photo_data @@
                               [id |-> NextId(photos), path |-> StoredPath(file_name)]
            IN /\ files' = WriteFile(files, FileLocation(file_name), photo)
               /\ photos' = photos \cup {photo_entry}
               /\ last' = Resp("add_photo", <<photo_data, photo>>, 200, photo_entry)
         /\ UNCHANGED <<plants, waterings, notes, today, default_date>>

\* delete_photo with a hook that does not catch: a failed move ends the request
\* with a server error and the session rolls back.
delete_photo_uncaught(id) ==
    IF ~Exists(photos, id)
    THEN /\ last' = Resp("delete_photo", id, 404, None)
         /\ UNCHANGED <<db, files, today, default_date>>
    ELSE \E out \in archive_deleted_photo({Get(photos, id)}) :
            /\ files' = out.files
            /\ IF out.log = {}
               THEN /\ photos' = photos \ {Get(photos, id)}
                    /\ last' = [Resp("delete_photo", id, 200, None) EXCEPT
                                  !.flush.photos = {id}]
               ELSE /\ photos' = photos
                    /\ last' = Resp("delete_photo", id, 500, None)
            /\ UNCHANGED <<plants, waterings, notes, today, default_date>>

\* DELETE /photos/{id}
delete_photo(id) ==
    IF ~Exists(photos, id)
    THEN /\ last' = Resp("delete_photo", id, 404, None)
         /\ UNCHANGED <<db, files, today, default_date>>
    ELSE /\ photos' = photos \ {Get(photos, id)}
         /\ \E out \in archive_deleted_photo({Get(photos, id)}) :
               /\ files' = out.files
               /\ last' = [Resp("delete_photo", id, 200, None) EXCEPT
                             !.log = out.log, !.flush.photos = {id}]
         /\ UNCHANGED <<plants, waterings, notes, today, default_date>>

----------------------------------------------------------------------------
(* main.py: notes. *)

\* NoteUpdate declares plant_id, date and note, none of them with a default.
NoteUpdateFields == {"plant_id", "date", "note"}

\* WateringResponse, the response_model of POST /notes.
WateringResponseFields == {"id", "plant_id", "date"}
NoteResponseFields == {"id", "plant_id", "date", "note"}

\* create_note without its look-up of the plant.
create_note_unchecked(note_in) ==
    /\ LET note == note_in @@ [id |-> NextId(notes)]
       IN /\ notes' = notes \cup {note}
          /\ last' = Resp("create_note", note_in, 200,
                          Serialize(note, WateringResponseFields))
    /\ UNCHANGED <<plants, waterings, photos, files, today, default_date>>

\* POST /notes
create_note(note_in) ==
    IF ~Exists(plants, note_in.plant_id)
    THEN /\ last' = Resp("create_note", note_in, 404, None)
         /\ UNCHANGED <<db, files, today, default_date>>
    ELSE /\ LET note == note_in @@ [id |-> NextId(notes)]
            IN /\ notes' = notes \cup {note}
               /\ last' = Resp("create_note", note_in, 200,
                               Serialize(note, WateringResponseFields))
         /\ UNCHANGED <<plants, waterings, photos, files, today, default_date>>

\* PATCH /notes/{id}.  The body is validated against NoteUpdate before the
\* handler runs: a body that leaves a field out is answered 422.
update_note_by_id(id, note_in) ==
    IF DOMAIN note_in # NoteUpdateFields
    THEN /\ last' = Resp("update_note_by_id", <<id, note_in>>, 422, None)
         /\ UNCHANGED <<db, files, today, default_date>>
    ELSE IF ~Exists(notes, id)
    THEN /\ last' = Resp("update_note_by_id", <<id, note_in>>, 404, None)
         /\ UNCHANGED <<db, files, today, default_date>>
    ELSE LET note == SetAttrs(Get(notes, id), note_in)
         IN /\ notes' = (notes \ {Get(notes, id)}) \cup {note}
            /\ last' = Resp("update_note_by_id", <<id, note_in>>, 200,
                            Serialize(note, NoteResponseFields))
            /\ UNCHANGED <<plants, waterings, photos, files, today, default_date>>

\* DELETE /notes/{id}
delete_note(id) ==
    IF ~Exists(notes, id)
    THEN /\ last' = Resp("delete_note", id, 404, None)
         /\ UNCHANGED <<db, files, today, default_date>>
    ELSE /\ notes' = notes \ {Get(notes, id)}
         /\ last' = [Resp("delete_note", id, 200, None) EXCEPT
                       !.flush.notes = {id}]
         /\ UNCHANGED <<plants, waterings, photos, files, today, default_date>>

----------------------------------------------------------------------------
(* main.py: the nested listings. *)

\* The defaults of the handlers' start and limit parameters.
DefaultStart == 0
DefaultLimitPhotos == 1
DefaultLimitWaterings == 3
DefaultLimitNotes == 3

\* A query parameter, or the handler's default when the request leaves it out.
Param(query, key, default) == IF key \in DOMAIN query THEN query[key] ELSE default

\* ORDER BY date ASC, in place of DESC.
OrderByDateAsc(rows) ==
    {s \in [1..Cardinality(rows) -> rows] :
        /\ \A i, j \in DOMAIN s : i # j => s[i] # s[j]
        /\ \A i, j \in DOMAIN s : i < j => s[i].date <= s[j].date}

\* ORDER BY date DESC: every order of the rows in which the dates do not
\* increase (SQL leaves the order of rows of one date open).
OrderByDateDesc(rows) ==
    {s \in [1..Cardinality(rows) -> rows] :
        /\ \A i, j \in DOMAIN s : i # j => s[i] # s[j]
        /\ \A i, j \in DOMAIN s : i < j => s[i].date >= s[j].date}

\* OFFSET start
Offset(s, start) == SubSeq(s, start + 1, Len(s))
\* LIMIT limit
Limit(s, limit) == SubSeq(s, 1, IF limit < Len(s) THEN limit ELSE Len(s))

\* query.filter(plant_id == id).order_by(date.desc()).offset(start).limit(limit)
PageQuery(table, id, start, limit) ==
    {Limit(Offset(s, start), limit) : s \in OrderByDateDesc(OwnedBy(table, id))}

\* The three handlers share one body, apart from the table and limit's default.
NestedListing(op, table, default_limit, id, query) ==
    IF ~Exists(plants, id)
    THEN /\ last' = Resp(op, <<id, query>>, 404, None)
         /\ UNCHANGED <<db, files, today, default_date>>
    ELSE /\ \E page \in PageQuery(table, id,
                                  Param(query, "start", DefaultStart),
                                  Param(query, "limit", default_limit)) :
               last' = Resp(op, <<id, query>>, 200, page)
         /\ UNCHANGED <<db, files, today, default_date>>

\* GET /plants/{id}/photos
get_plant_photos(id, query) ==
    NestedListing("get_plant_photos", photos, DefaultLimitPhotos, id, query)

\* GET /plants/{id}/waterings
get_plant_waterings(id, query) ==
    NestedListing("get_plant_waterings", waterings, DefaultLimitWaterings, id, query)

\* GET /plants/{id}/notes
get_plant_notes(id, query) ==
    NestedListing("get_plant_notes", notes, DefaultLimitNotes, id, query)

----------------------------------------------------------------------------
(* main.py: the plant listing, and the facade of graphql/schema.py. *)

\* The rows of a table as a list, in rowid order.
RECURSIVE ById(_)
ById(rows) ==
    IF rows = {} THEN <<>>
    ELSE LET first == CHOOSE r \in rows : \A q \in rows : r.id <= q.id
         IN <<first>> \o ById(rows \ {first})

\* select(Plant).options(selectinload(Plant.photos)): the ORM objects, each
\* with its photos loaded.
LoadedPlant(plant) == plant @@ [photos |-> ById(OwnedBy(photos, plant.id))]

\* The JSON body of GET /plants: response_model is list[PlantResponse].
AllPlantsJson ==
    LET loaded == ById(plants)
    IN [i \in DOMAIN loaded |-> Serialize(LoadedPlant(loaded[i]), PlantResponseFields)]

\* GET /plants
get_all_plants ==
    /\ last' = Resp("get_all_plants", None, 200, AllPlantsJson)
    /\ UNCHANGED <<db, files, today, default_date>>

\* The strawberry types Photo and Plant.
GqlPhoto(photo) ==
    [id |-> photo["id"], plant_id |-> photo["plant_id"],
     date |-> photo["date"], path |-> photo["path"]]
GqlPlant(plant) ==
    [id |-> plant["id"], name |-> plant["name"],
     photos |-> [i \in DOMAIN plant["photos"] |-> GqlPhoto(plant["photos"][i])]]

\* get_plants(): GET /plants, then one Plant per entry of the body.  Reading
\* plant["photos"] of an entry that has no such key raises KeyError, which
\* nothing catches.
get_plants ==
    LET data == AllPlantsJson
    IN /\ last' = IF \E i \in DOMAIN data : "photos" \notin DOMAIN data[i]
                  THEN Resp("get_plants", None, 500, "KeyError")
                  ELSE Resp("get_plants", None, 200,
                            [i \in DOMAIN data |-> GqlPlant(data[i])])
       /\ UNCHANGED <<db, files, today, default_date>>

----------------------------------------------------------------------------
(* The environment. *)

\* A file of the disk is removed from outside the program.
disk_remove(path) ==
    /\ OnDisk(path)
    /\ files' = {f \in files : f.path # path}
    /\ last' = Resp("disk_remove", None, 200, None)
    /\ UNCHANGED <<db, today, default_date>>

\* A file is put on the disk from outside the program.
disk_put(path, bytes) ==
    /\ ~OnDisk(path)
    /\ files' = WriteFile(files, path, bytes)
    /\ last' = Resp("disk_put", None, 200, None)
    /\ UNCHANGED <<db, today, default_date>>

\* The calendar moves on while the server process keeps running.
NextDay ==
    /\ today < MaxDate
    /\ today' = today + 1
    /\ last' = Resp("next_day", None, 200, None)
    /\ UNCHANGED <<db, files, default_date>>

----------------------------------------------------------------------------
(* Inputs. *)

\* PlantCreate payloads: name is required, the other fields may be unset.
PlantCreateInputs(N, D, H) ==
    {[name |-> n] : n \in N}
    \cup {[name |-> n, acquisition_date |-> d] : n \in N, d \in D}
    \cup {[name |-> n, health_status |-> h] : n \in N, h \in H}

\* PlantUpdate payloads: every field may be unset.
PlantUpdateInputs(N, D, H) ==
    {[name |-> n] : n \in N}
    \cup {[acquisition_date |-> d] : d \in D}
    \cup {[health_status |-> h] : h \in H}

\* WateringCreate and PhotoCreate payloads: both fields are required.
DatedInputs(P, D) == {[plant_id |-> p, date |-> d] : p \in P, d \in D}

\* NoteCreate payloads, and the complete NoteUpdate payloads.
NoteInputs(P, D, T) ==
    {[plant_id |-> p, date |-> d, note |-> t] : p \in P, d \in D, t \in T}

\* PATCH /notes bodies that carry some of the fields only.
PartialNoteInputs(D, T) == {[date |-> d] : d \in D} \cup {[note |-> t] : t \in T}

\* The query strings of a nested listing.
QueryInputs ==
    {<<>>}
    \cup {[start |-> s] : s \in 0..MaxStart}
    \cup {[limit |-> l] : l \in 0..MaxLimit}
    \cup {[start |-> s, limit |-> l] : s \in 0..MaxStart, l \in 0..MaxLimit}

NoteTexts == {"n1", "n2"}

----------------------------------------------------------------------------
(* The state after start-up. *)

\* A row of the plants table.
PlantRow(id, name, parent_id) ==
    [id |-> id, name |-> name, nickname |-> None, scientific |-> None,
     watering_frequency_days |-> None, acquisition_date |-> 1,
     health_status |-> "healthy", parent_id |-> parent_id]

\* A first start: create_all makes the tables, os.makedirs the photo directory.
Init ==
    /\ plants = {}
    /\ waterings = {}
    /\ photos = {}
    /\ notes = {}
    /\ files = {}
    /\ today = 1
    /\ default_date = today
    /\ last = Resp("start", None, 200, None)

\* conservatory.db outlives the process (create_all only adds missing tables).
\* No handler writes parent_id, so a plant with a parent is a row the file
\* already holds at start-up: here plant 2, propagated from plant 1.
KeptPlants == {PlantRow(1, NamePlain, None), PlantRow(2, NamePlain, Some(1))}

\* A start over the database file of an earlier run.
InitKept ==
    /\ plants = KeptPlants
    /\ waterings = {}
    /\ photos = {}
    /\ notes = {}
    /\ files = {}
    /\ today = 1
    /\ default_date = today
    /\ last = Resp("start", None, 200, None)

----------------------------------------------------------------------------
(* The specifications. *)

\* Plants and the rows they own: the creates, and the delete that cascades.
Next ==
    \/ \E p \in PlantCreateInputs({NamePlain}, {}, {}) : create_plant(p) /\ PlantsFit'
    \/ \E id \in PlantIds : delete_plant_by_id(id)
    \/ \E w \in DatedInputs(PlantIds, {today}) :
          create_watering(w) /\ RowsFit(MaxRowId)'
    \/ \E d \in DatedInputs(PlantIds, {today}) :
          add_photo(d, "A") /\ RowsFit(MaxRowId)'
    \/ \E n \in NoteInputs(PlantIds, {today}, {"n1"}) :
          create_note(n) /\ RowsFit(MaxRowId)'

Spec == (Init \/ InitKept) /\ [][Next]_vars

\* Every write operation of the four resources.
NextWrites ==
    \/ \E p \in PlantCreateInputs({NamePlain}, {}, {}) : create_plant(p) /\ PlantsFit'
    \/ \E id \in PlantIds, p \in PlantUpdateInputs({NamePlain}, {}, {}) :
          update_plant_by_id(id, p)
    \/ \E id \in PlantIds : delete_plant_by_id(id)
    \/ \E w \in DatedInputs(PlantIds, {today}) :
          create_watering(w) /\ RowsFit(MaxRowId)'
    \/ \E id \in RowIds : delete_watering(id)
    \/ \E d \in DatedInputs(PlantIds, {today}) :
          add_photo(d, "A") /\ RowsFit(MaxRowId)'
    \/ \E id \in RowIds : delete_photo(id)
    \/ \E n \in NoteInputs(PlantIds, {today}, {"n1"}) :
          create_note(n) /\ RowsFit(MaxRowId)'
    \/ \E id \in RowIds, n \in NoteInputs(PlantIds, {today}, {"n1"}) :
          update_note_by_id(id, n)
    \/ \E id \in RowIds : delete_note(id)

SpecWrites == Init /\ [][NextWrites]_vars

\* Notes, with complete and partial PATCH bodies.
NextNotes ==
    \/ \E p \in PlantCreateInputs({NamePlain}, {}, {}) : create_plant(p) /\ PlantsFit'
    \/ \E n \in NoteInputs(PlantIds, Dates, NoteTexts) :
          create_note(n) /\ RowsFit(MaxRowId)'
    \/ \E id \in RowIds, n \in NoteInputs(PlantIds, Dates, NoteTexts)
                              \cup PartialNoteInputs(Dates, NoteTexts) :
          update_note_by_id(id, n)
    \/ \E id \in RowIds : delete_note(id)

SpecNotes == Init /\ [][NextNotes]_vars

\* Photos and their files, with a disk that changes from outside too.
NextPhotos ==
    \/ \E p \in PlantCreateInputs({NameSpaced}, {}, {}) :
          create_plant(p) /\ PlantsFit'
    \/ \E id \in PlantIds : delete_plant_by_id(id)
    \/ \E d \in DatedInputs(PlantIds, {today}), bytes \in Contents :
          add_photo(d, bytes) /\ RowsFit(MaxRowId)'
    \/ \E id \in RowIds : delete_photo(id)
    \/ \E f \in files : disk_remove(f.path)
    \/ \E p \in photos : disk_put(p.path, "B")

SpecPhotos == Init /\ [][NextPhotos]_vars

\* The read operations over a store that creates fill.
NextListing ==
    \/ \E p \in PlantCreateInputs({NamePlain}, {}, {}) : create_plant(p) /\ PlantsFit'
    \/ \E w \in DatedInputs(PlantIds, Dates) : create_watering(w) /\ RowsFit(MaxRows)'
    \/ \E d \in DatedInputs(PlantIds, Dates) : add_photo(d, "A") /\ RowsFit(MaxRows)'
    \/ \E n \in NoteInputs(PlantIds, Dates, {"n1"}) :
          create_note(n) /\ RowsFit(MaxRows)'
    \/ \E id \in PlantIds, q \in QueryInputs : get_plant_waterings(id, q)
    \/ \E id \in PlantIds, q \in QueryInputs : get_plant_photos(id, q)
    \/ \E id \in PlantIds, q \in QueryInputs : get_plant_notes(id, q)
    \/ get_all_plants
    \/ get_plants

SpecListing == Init /\ [][NextListing]_vars

\* Plants created and updated as the days pass.
NextClock ==
    \/ \E p \in PlantCreateInputs({NamePlain}, Dates, HealthStatus) :
          create_plant(p) /\ PlantsFit'
    \/ \E id \in PlantIds, p \in PlantUpdateInputs({NamePlain}, Dates, HealthStatus) :
          update_plant_by_id(id, p)
    \/ NextDay

SpecClock == Init /\ [][NextClock]_vars

----------------------------------------------------------------------------
(* The claims. *)

\* C1: after delete_plant_by_id succeeds for plant P, no watering, photo or
\* note with plant_id = P exists; every other plant, the ones whose parent_id
\* was P included, still exists; and the waterings, photos and notes of other
\* plants are unchanged.
C1_DeletePlantCascades ==
    [][(last'.op = "delete_plant_by_id" /\ last'.status = 200) =>
          LET P == last'.arg
          IN /\ OwnedBy(waterings', P) = {}
             /\ OwnedBy(photos', P) = {}
             /\ OwnedBy(notes', P) = {}
             /\ \A p \in plants : p.id # P =>
                   \E q \in plants' :
                      /\ q.id = p.id
                      /\ \A k \in PlantBaseFields : q[k] = p[k]
             /\ \A w \in waterings : w.plant_id # P => w \in waterings'
             /\ \A ph \in photos : ph.plant_id # P => ph \in photos'
             /\ \A n \in notes : n.plant_id # P => n \in notes'
             /\ waterings' \subseteq waterings
             /\ photos' \subseteq photos
             /\ notes' \subseteq notes]_vars

\* A plant with two or more child rows was deleted, a plant that had it as
\* parent lives on, and rows of another plant are still there.
C1_Witness ==
    /\ last.op = "delete_plant_by_id"
    /\ last.status = 200
    /\ Cardinality(last.flush.waterings) + Cardinality(last.flush.photos)
          + Cardinality(last.flush.notes) >= 2
    /\ \E c \in last.flush.nulled : Exists(plants, c) /\ OwnedBy(notes, c) # {}

\* C2: every watering, photo and note has the plant_id of a plant that exists.
C2_NoOrphans ==
    /\ \A w \in waterings : Exists(plants, w.plant_id)
    /\ \A ph \in photos : Exists(plants, ph.plant_id)
    /\ \A n \in notes : Exists(plants, n.plant_id)

\* The plant_id of the payload of a create request.
PayloadPlantId(resp) ==
    IF resp.op = "add_photo" THEN resp.arg[1].plant_id ELSE resp.arg.plant_id

\* C3: create_watering, add_photo and create_note with the plant_id of no
\* existing plant answer 404 and change nothing: no row, and no file.
C3_CreateForMissingPlant ==
    [][(/\ last'.op \in {"create_watering", "add_photo", "create_note"}
        /\ ~Exists(plants, PayloadPlantId(last'))) =>
          /\ last'.status = 404
          /\ UNCHANGED <<plants, waterings, photos, notes, files>>]_vars

\* add_photo was refused for a missing plant while plants and photos exist.
C3_Witness ==
    /\ last.op = "add_photo"
    /\ last.status = 404
    /\ plants # {}
    /\ photos # {}

\* C4: update_note_by_id on an existing note with a body that carries the date
\* only succeeds and sets that note's date.
C4_PartialDateUpdate ==
    (/\ last.op = "update_note_by_id"
     /\ DOMAIN last.arg[2] = {"date"}
     /\ Exists(notes, last.arg[1])) =>
        /\ last.status = 200
        /\ Get(notes, last.arg[1]).date = last.arg[2].date

FileOnDisk(fs, path) == \E f \in fs : f.path = path

\* C5: when a photo row is deleted while the file add_photo wrote for it is on
\* disk and no move fails, the file is gone from photos/ and a file of its name
\* is in deleted_photos/.
C5_DeletedPhotoIsArchived ==
    [][\A p \in photos :
          (/\ p \notin photos'
           /\ FileOnDisk(files, FileLocation(p.path.name))
           /\ last'.log = {}) =>
             /\ ~FileOnDisk(files', FileLocation(p.path.name))
             /\ FileOnDisk(files', ArchivePath(p.path))]_vars

\* C6: delete_photo on the id of an existing photo removes the row and answers
\* without an error, whatever becomes of the file; on any other id it answers
\* 404 and changes nothing.
C6_DeletePhotoAlwaysSucceeds ==
    [][last'.op = "delete_photo" =>
          IF Exists(photos, last'.arg)
          THEN /\ last'.status = 200
               /\ photos' = photos \ {Get(photos, last'.arg)}
               /\ UNCHANGED <<plants, waterings, notes>>
          ELSE /\ last'.status = 404
               /\ UNCHANGED <<plants, waterings, photos, notes, files>>]_vars

\* A photo was deleted although the move of its file failed.
C6_Witness ==
    /\ last.op = "delete_photo"
    /\ last.status = 200
    /\ last.log # {}
    /\ ~Exists(photos, last.arg)

ListingTable(op) ==
    IF op = "get_plant_waterings" THEN waterings
    ELSE IF op = "get_plant_photos" THEN photos ELSE notes

\* C7: a nested listing of an existing plant P returns rows of P only, in
\* descending date order, exactly those at positions start+1 .. start+limit of
\* P's rows by descending date (limit defaults to 3, to 1 for photos; start to
\* 0); for a plant that does not exist it answers 404.
C7_NestedListingPage ==
    last.op \in {"get_plant_waterings", "get_plant_photos", "get_plant_notes"} =>
        LET P == last.arg[1]
            query == last.arg[2]
            start == IF "start" \in DOMAIN query THEN query.start ELSE 0
            limit == IF "limit" \in DOMAIN query THEN query.limit
                     ELSE IF last.op = "get_plant_photos" THEN 1 ELSE 3
            rows == {r \in ListingTable(last.op) : r.plant_id = P}
            left == IF Cardinality(rows) > start THEN Cardinality(rows) - start ELSE 0
            page == last.body
        IN IF ~Exists(plants, P)
           THEN last.status = 404
           ELSE /\ last.status = 200
                /\ Len(page) = IF limit < left THEN limit ELSE left
                /\ \A i \in DOMAIN page : page[i] \in rows
                /\ \A i, j \in DOMAIN page : i < j =>
                      page[i] # page[j] /\ page[i].date >= page[j].date
                /\ \A i \in DOMAIN page :
                      /\ Cardinality({r \in rows : r.date > page[i].date})
                            <= start + i - 1
                      /\ Cardinality({r \in rows : r.date >= page[i].date})
                            >= start + i

\* start=1, limit=2 over three waterings of two dates returned the 2nd and 3rd.
C7_Witness ==
    /\ last.op = "get_plant_waterings"
    /\ last.status = 200
    /\ last.arg[2] = [start |-> 1, limit |-> 2]
    /\ Cardinality(OwnedBy(waterings, last.arg[1])) = 3
    /\ Len(last.body) = 2
    /\ last.body[1].date > last.body[2].date

\* C8: create_plant with a body that carries the name only yields a plant with
\* health_status HEALTHY and acquisition_date the day of the request.
C8_CreateDefaults ==
    (last.op = "create_plant" /\ DOMAIN last.arg = {"name"}) =>
        /\ last.body.health_status = "healthy"
        /\ last.body.acquisition_date = today

\* C9: get_all_plants returns every plant with its photos, and get_plants
\* returns one entry per plant with its id, its name and its photos.
C9_FacadeMirrorsListing ==
    /\ last.op = "get_all_plants" =>
          /\ Len(last.body) = Cardinality(plants)
          /\ \A i \in DOMAIN last.body : "photos" \in DOMAIN last.body[i]
    /\ last.op = "get_plants" =>
          /\ last.status = 200
          /\ Len(last.body) = Cardinality(plants)
          /\ \A p \in plants : \E i \in DOMAIN last.body :
                /\ last.body[i].id = p.id
                /\ last.body[i].name = p.name
                /\ {last.body[i].photos[k] : k \in DOMAIN last.body[i].photos}
                      = OwnedBy(photos, p.id)

\* C10: two photo rows never share a path.
C10_PhotoPathsDistinct ==
    \A p, q \in photos : p.id # q.id => p.path # q.path
====
